---------------------------- MODULE Spec2Model ----------------------------
(***************************************************************************)
(* DailyFlo backend: the list store and the task store behind the REST     *)
(* API (Django models, DRF serializers and viewsets).                      *)
(*                                                                         *)
(* The persistent store is two tables, lists and tasks, keyed by id.  Ids  *)
(* are UUIDs in the code; here they are allocated from a counter and never *)
(* reused.  A request handler is a function of the store, the clock and    *)
(* the request: an operator <Handler>Outcome gives its response and the    *)
(* tables it leaves, and the action <Handler> commits those tables.  The   *)
(* read-only handlers (GET) are operators only.                            *)
(***************************************************************************)
EXTENDS Integers, FiniteSets, Sequences, TLC

\* ----------------------------------------------------------------- bounds
\* list rows ever created in the list-store specifications
MaxLists == 3
\* list rows and task rows ever created in the specification of both stores
MaxListsBoth == 2
MaxTasks == 2
MaxTime == 1
\* user rows ever created, the administrator included
MaxUsers == 3
TicksPerDay == 2

Users == {"ua", "ub"}
Names == {"n1", "n2", "n3"}
Procs == {"p1", "p2"}

\* Python None / SQL NULL, for the nullable columns (list, due_date, completed_at)
None == -1

\* due dates a caller can send: any instant up to one step past the last clock value
DueDates == 0 .. (MaxTime + 1)

\* ids a caller may put in a URL or a body: ids in use, deleted ids, ids never issued
AnyListId == 1 .. (MaxLists + 1)
AnyTaskId == 1 .. (MaxTasks + 1)

\* a request field: <<>> when the body does not carry it, <<value>> when it does
Optional(S) == {<<>>} \cup {<<x>> : x \in S}

VARIABLES lists, nextList, tasks, nextTask, now, inflight, customUsers

vars == <<lists, nextList, tasks, nextTask, now, inflight, customUsers>>

ListIds == DOMAIN lists
TaskIds == DOMAIN tasks

\* what a handler answers and leaves: the HTTP status, the ids of the tasks and
\* lists in the body, and the two tables
Outcome(status, bodyTasks, bodyLists, ls, ts) ==
    [status |-> status, body_tasks |-> bodyTasks, body_lists |-> bodyLists,
     lists |-> ls, tasks |-> ts]

\* a response that changes nothing
Answer(status, bodyTasks, bodyLists) ==
    Outcome(status, bodyTasks, bodyLists, lists, tasks)

\* ------------------------------------------------------------ list store

\* ListViewSet.get_queryset: List.objects.filter(user=request.user, soft_deleted=False)
ListGetQueryset(ls, u) ==
    {id \in DOMAIN ls : ls[id].user = u /\ ~ls[id].soft_deleted}

\* Mutant: save() without the clearing UPDATE
ClearOtherDefaults_Skipped(ls, id, inst) == ls

\* Mutant: the clearing UPDATE also writes soft_deleted=True on the rows it clears
ClearOtherDefaults_AlsoDeletes(ls, id, inst) ==
    IF inst.is_default
    THEN [k \in DOMAIN ls |->
            IF /\ ls[k].user = inst.user
               /\ ls[k].is_default
               /\ ~ls[k].soft_deleted
               /\ k # id
            THEN [ls[k] EXCEPT !.is_default = FALSE, !.soft_deleted = TRUE]
            ELSE ls[k]]
    ELSE ls

\* List.save, first statement: List.objects.filter(user=self.user, is_default=True,
\* soft_deleted=False).exclude(id=self.id).update(is_default=False), run when
\* self.is_default
ClearOtherDefaults(ls, id, inst) ==
    IF inst.is_default
    THEN [k \in DOMAIN ls |->
            IF /\ ls[k].user = inst.user
               /\ ls[k].is_default
               /\ ~ls[k].soft_deleted
               /\ k # id
            THEN [ls[k] EXCEPT !.is_default = FALSE]
            ELSE ls[k]]
    ELSE ls

\* unique_together = ['user', 'name']: the database refuses a row whose (user, name)
\* is held by another row, soft-deleted or not
UniqueTogetherViolated(ls, id, inst) ==
    \E k \in DOMAIN ls : k # id /\ ls[k].user = inst.user /\ ls[k].name = inst.name

\* super().save(): INSERT or UPDATE of the whole row
WriteRow(ls, id, inst) ==
    [k \in DOMAIN ls \cup {id} |-> IF k = id THEN inst ELSE ls[k]]

\* List.save as one unit: the clearing UPDATE, then the row write, which raises
\* IntegrityError (and writes nothing) on a (user, name) collision.  The two
\* statements are not wrapped in a transaction: the clearing stays applied.
SaveList(ls, id, inst) ==
    LET cleared == ClearOtherDefaults(ls, id, inst)
    IN  IF UniqueTogetherViolated(cleared, id, inst)
        THEN [ok |-> FALSE, lists |-> cleared]
        ELSE [ok |-> TRUE, lists |-> WriteRow(cleared, id, inst)]

\* Mutant: a row whose owner is one fixed account, whoever the caller is
NewList_FixedOwner(u, name, isDefault, softDeleted) ==
    [user |-> "ua", name |-> name, is_default |-> isDefault, soft_deleted |-> softDeleted]

\* List fields of a row as a save writes it: perform_create passes
\* user=request.user, and no serializer of the list API has a user field
NewList(u, name, isDefault, softDeleted) ==
    [user |-> u, name |-> name, is_default |-> isDefault, soft_deleted |-> softDeleted]

\* Mutant: on_delete=models.CASCADE, the rows that reference the list go with it
SetNullOnDelete_Cascade(ts, id) ==
    [t \in {k \in DOMAIN ts : ts[k].list # id} |-> ts[t]]

\* on_delete=models.SET_NULL on Task.list: deleting the list row nulls the column
\* in every task row that references it
SetNullOnDelete(ts, id) ==
    [t \in DOMAIN ts |-> IF ts[t].list = id THEN [ts[t] EXCEPT !.list = None] ELSE ts[t]]

\* The non-deleted default lists of a user: the rows List.objects.get(user=...,
\* is_default=True, soft_deleted=False) chooses from
DefaultsOf(ls, u) ==
    {id \in DOMAIN ls : ls[id].user = u /\ ls[id].is_default /\ ~ls[id].soft_deleted}

\* A save of a List instance outside the two serializers of the list API (the
\* provisioning of a user's inbox, the admin form, ListSerializer's writable
\* is_default): List.save for instance inst with primary key id.  An
\* IntegrityError is unhandled: status 500.
ListSaveOutcome(id, inst) ==
    LET r == SaveList(lists, id, inst)
    IN  Outcome(IF r.ok THEN 200 ELSE 500, {}, IF r.ok THEN {id} ELSE {}, r.lists, tasks)

\* save() of a new instance: INSERT
ListSaveNew(u, name, isDefault, softDeleted) ==
    /\ nextList < MaxLists
    /\ LET out == ListSaveOutcome(nextList + 1, NewList(u, name, isDefault, softDeleted))
       IN  /\ lists' = out.lists
           /\ nextList' = IF out.status = 200 THEN nextList + 1 ELSE nextList
    /\ UNCHANGED <<tasks, nextTask, now, inflight, customUsers>>

\* the instance a caller holds after loading row id and setting name, is_default
\* and soft_deleted; the owner of an existing row is kept
Loaded(id, name, isDefault, softDeleted) ==
    NewList(lists[id].user, name, isDefault, softDeleted)

\* save() of an instance loaded from the table: UPDATE
ListSaveExisting(id, name, isDefault, softDeleted) ==
    /\ id \in ListIds
    /\ lists' = ListSaveOutcome(id, Loaded(id, name, isDefault, softDeleted)).lists
    /\ UNCHANGED <<nextList, tasks, nextTask, now, inflight, customUsers>>

\* POST lists/ (ListViewSet.perform_create, ListCreateSerializer): the serializer
\* has no is_default and no user field, so no uniqueness validator runs; the row
\* is saved with is_default = False
ListCreateOutcome(u, name) ==
    LET id == nextList + 1
        r == SaveList(lists, id, NewList(u, name, FALSE, FALSE))
    IN  Outcome(IF r.ok THEN 201 ELSE 500, {}, IF r.ok THEN {id} ELSE {}, r.lists, tasks)

ListCreate(u, name) ==
    /\ nextList < MaxLists
    /\ LET out == ListCreateOutcome(u, name)
       IN  /\ lists' = out.lists
           /\ nextList' = IF out.status = 201 THEN nextList + 1 ELSE nextList
    /\ UNCHANGED <<tasks, nextTask, now, inflight, customUsers>>

\* Mutant: validate_name without .exclude(id=instance.id)
ValidateName_NoExclude(u, id, name) ==
    ~\E k \in ListIds :
        /\ lists[k].user = u
        /\ lists[k].name = name
        /\ ~lists[k].soft_deleted

\* ListUpdateSerializer.validate_name
ValidateName(u, id, name) ==
    ~\E k \in ListIds :
        /\ lists[k].user = u
        /\ lists[k].name = name
        /\ ~lists[k].soft_deleted
        /\ k # id

\* PUT/PATCH lists/{id}/ with ListUpdateSerializer: name is <<>> or <<name>>
ListUpdateOutcome(u, id, name) ==
    IF id \notin ListGetQueryset(lists, u)
    THEN Answer(404, {}, {})
    ELSE IF name # <<>> /\ ~ValidateName(u, id, name[1])
    THEN Answer(400, {}, {})
    ELSE LET inst == IF name = <<>> THEN lists[id] ELSE [lists[id] EXCEPT !.name = name[1]]
             r == SaveList(lists, id, inst)
         IN  Outcome(IF r.ok THEN 200 ELSE 500, {}, IF r.ok THEN {id} ELSE {},
                     r.lists, tasks)

ListUpdate(u, id, name) ==
    /\ lists' = ListUpdateOutcome(u, id, name).lists
    /\ UNCHANGED <<nextList, tasks, nextTask, now, inflight, customUsers>>

\* PUT/PATCH lists/{id}/ as the ListViewSet of tasks/views.py serves it: its
\* get_serializer_class gives ListSerializer for every action but create, and
\* ListSerializer has a writable is_default and no validate_name.  name and
\* isDefault are <<>> (not in the body) or <<value>>
ListSerializerUpdateOutcome(u, id, name, isDefault) ==
    IF id \notin ListGetQueryset(lists, u)
    THEN Answer(404, {}, {})
    ELSE LET inst == [lists[id] EXCEPT
                        !.name = IF name = <<>> THEN @ ELSE name[1],
                        !.is_default = IF isDefault = <<>> THEN @ ELSE isDefault[1]]
             r == SaveList(lists, id, inst)
         IN  Outcome(IF r.ok THEN 200 ELSE 500, {}, IF r.ok THEN {id} ELSE {},
                     r.lists, tasks)

ListSerializerUpdate(u, id, name, isDefault) ==
    /\ lists' = ListSerializerUpdateOutcome(u, id, name, isDefault).lists
    /\ UNCHANGED <<nextList, tasks, nextTask, now, inflight, customUsers>>

\* PUT/PATCH lists/{id}/ as the ListViewSet of lists/views.py serves it, sent with
\* a body that may carry is_default: ListUpdateSerializer has no such field, so the
\* value is dropped
ListUpdateRequest(u, id, name, isDefault) == ListUpdateOutcome(u, id, name)

\* DELETE lists/{id}/: ListViewSet does not override perform_destroy, so the
\* ModelViewSet default runs instance.delete(): the row is removed and the
\* database nulls Task.list in the rows that referenced it
ListDestroyOutcome(u, id) ==
    IF id \notin ListGetQueryset(lists, u)
    THEN Answer(404, {}, {})
    ELSE Outcome(204, {}, {}, [k \in ListIds \ {id} |-> lists[k]],
                 SetNullOnDelete(tasks, id))

ListDestroy(u, id) ==
    /\ lists' = ListDestroyOutcome(u, id).lists
    /\ tasks' = ListDestroyOutcome(u, id).tasks
    /\ UNCHANGED <<nextList, nextTask, now, inflight, customUsers>>

\* ListDeleteSerializer.validate_confirm_delete, with required=True on the field:
\* confirm is <<>> (absent) or <<b>>.  No view instantiates this serializer.
ValidateConfirmDelete(confirm) == confirm # <<>> /\ confirm[1]

\* DELETE lists/{id}/ sent with a body carrying confirm_delete: destroy() reads no
\* request data, so the body has no part in the outcome
ListDestroyRequest(u, id, confirm) == ListDestroyOutcome(u, id)

\* GET lists/
ListListView(u) == Answer(200, {}, ListGetQueryset(lists, u))

\* GET lists/{id}/
ListRetrieveView(u, id) ==
    IF id \in ListGetQueryset(lists, u) THEN Answer(200, {}, {id}) ELSE Answer(404, {}, {})

\* GET lists/inbox/: DoesNotExist is answered 404; MultipleObjectsReturned is not
\* caught by the view
ListInboxView(u) ==
    IF DefaultsOf(lists, u) = {} THEN Answer(404, {}, {})
    ELSE IF Cardinality(DefaultsOf(lists, u)) = 1 THEN Answer(200, {}, DefaultsOf(lists, u))
    ELSE Answer(500, {}, {})

\* ------------------------------------------------------------ task store

\* Mutant: the queryset without its user=request.user filter
TaskGetQueryset_AnyUser(ts, u) ==
    {t \in DOMAIN ts : ~ts[t].soft_deleted}

\* Mutant: the queryset without its soft_deleted=False filter
TaskGetQueryset_WithDeleted(ts, u) ==
    {t \in DOMAIN ts : ts[t].user = u}

\* TaskViewSet.get_queryset: Task.objects.filter(user=request.user, soft_deleted=False)
TaskGetQueryset(ts, u) ==
    {t \in DOMAIN ts : ts[t].user = u /\ ~ts[t].soft_deleted}

\* Mutant: mark_completed also drops the due date
MarkCompleted_ClearsDue(task) ==
    [task EXCEPT !.is_completed = TRUE, !.completed_at = now, !.due_date = None]

\* Task.mark_completed
MarkCompleted(task) ==
    [task EXCEPT !.is_completed = TRUE, !.completed_at = now]

\* Mutant: mark_incomplete without self.completed_at = None
MarkIncomplete_KeepStamp(task) ==
    [task EXCEPT !.is_completed = FALSE]

\* Task.mark_incomplete
MarkIncomplete(task) ==
    [task EXCEPT !.is_completed = FALSE, !.completed_at = None]

\* Mutant: update without the 'and not instance.is_completed' test, so a completed
\* task is marked completed again
CompleteUpdate_Restamp(task, data) ==
    LET is_completed == IF data = <<>> THEN task.is_completed ELSE data[1]
    IN  IF is_completed THEN MarkCompleted(task)
        ELSE IF task.is_completed THEN MarkIncomplete(task)
        ELSE task

\* TaskCompleteSerializer.update: data is <<>> (is_completed not supplied) or <<b>>
CompleteUpdate(task, data) ==
    LET is_completed == IF data = <<>> THEN task.is_completed ELSE data[1]
    IN  IF is_completed /\ ~task.is_completed THEN MarkCompleted(task)
        ELSE IF ~is_completed /\ task.is_completed THEN MarkIncomplete(task)
        ELSE task

\* Mutant: is_overdue with 'timezone.now() >= self.due_date'
IsOverdue_Inclusive(task) ==
    IF task.due_date = None \/ task.is_completed
    THEN FALSE
    ELSE now >= task.due_date

\* Task.is_overdue
IsOverdue(task) ==
    IF task.due_date = None \/ task.is_completed
    THEN FALSE
    ELSE now > task.due_date

\* The 'list' field of the task serializers is a primary-key field over
\* List.objects.all(): an id with no row is refused before validate_list runs
ListPkExists(value) == value = None \/ value \in ListIds

\* Mutant: validate_list without the owner comparison
ValidateList_Always(u, value) == TRUE

\* TaskCreateSerializer.validate_list / TaskUpdateSerializer.validate_list
ValidateList(u, value) ==
    ~(value # None /\ lists[value].user # u)

\* Mutant: validate_due_date that accepts every value
ValidateDueDate_Skipped(value) == TRUE

\* Mutant: validate_due_date with 'value <= timezone.now()'
ValidateDueDate_Inclusive(value) ==
    ~(value # None /\ value <= now)

\* TaskCreateSerializer.validate_due_date / TaskUpdateSerializer.validate_due_date
ValidateDueDate(value) ==
    ~(value # None /\ value < now)

\* Field defaults of the Task model for a row created through TaskCreateSerializer
NewTask(u, list, due) ==
    [user |-> u, list |-> list, due_date |-> due, is_completed |-> FALSE,
     completed_at |-> None, soft_deleted |-> FALSE]

\* POST tasks/ (TaskViewSet.perform_create, TaskCreateSerializer)
TaskCreateOutcome(u, list, due) ==
    IF ListPkExists(list) /\ ValidateList(u, list) /\ ValidateDueDate(due)
    THEN Outcome(201, {nextTask + 1}, {}, lists,
                 [t \in TaskIds \cup {nextTask + 1} |->
                    IF t = nextTask + 1 THEN NewTask(u, list, due) ELSE tasks[t]])
    ELSE Answer(400, {}, {})

TaskCreate(u, list, due) ==
    /\ nextTask < MaxTasks
    /\ LET out == TaskCreateOutcome(u, list, due)
       IN  /\ tasks' = out.tasks
           /\ nextTask' = IF out.status = 201 THEN nextTask + 1 ELSE nextTask
    /\ UNCHANGED <<lists, nextList, now, inflight, customUsers>>

\* PUT/PATCH tasks/{id}/ with TaskUpdateSerializer: data.list and data.due_date are
\* <<>> (not supplied) or <<value>>; the serializer has no is_completed,
\* completed_at, soft_deleted or user field
TaskUpdateOutcome(u, id, data) ==
    IF id \notin TaskGetQueryset(tasks, u)
    THEN Answer(404, {}, {})
    ELSE IF \/ data.list # <<>> /\ ~(ListPkExists(data.list[1]) /\ ValidateList(u, data.list[1]))
            \/ data.due_date # <<>> /\ ~ValidateDueDate(data.due_date[1])
    THEN Answer(400, {}, {})
    ELSE Outcome(200, {id}, {}, lists,
                 [tasks EXCEPT ![id] =
                    [@ EXCEPT !.list = IF data.list = <<>> THEN @ ELSE data.list[1],
                              !.due_date = IF data.due_date = <<>> THEN @
                                           ELSE data.due_date[1]]])

TaskUpdate(u, id, data) ==
    /\ tasks' = TaskUpdateOutcome(u, id, data).tasks
    /\ UNCHANGED <<lists, nextList, nextTask, now, inflight, customUsers>>

\* POST tasks/ and PUT/PATCH tasks/{id}/ sent with a body that also carries a user:
\* neither serializer has a user field, so the value is dropped (create assigns
\* request.user)
TaskCreateRequest(u, list, due, owner) == TaskCreateOutcome(u, list, due)
TaskUpdateRequest(u, id, data, owner) == TaskUpdateOutcome(u, id, data)

\* Mutant: complete resolving the task among all of the caller's rows, soft-deleted
\* ones included
TaskCompleteOutcome_AnyOwnTask(u, id, data) ==
    IF id \notin TaskIds \/ tasks[id].user # u
    THEN Answer(404, {}, {})
    ELSE Outcome(200, {id}, {}, lists, [tasks EXCEPT ![id] = CompleteUpdate(@, data)])

\* PATCH tasks/{id}/complete/ (TaskViewSet.complete)
TaskCompleteOutcome(u, id, data) ==
    IF id \notin TaskGetQueryset(tasks, u)
    THEN Answer(404, {}, {})
    ELSE Outcome(200, {id}, {}, lists, [tasks EXCEPT ![id] = CompleteUpdate(@, data)])

TaskComplete(u, id, data) ==
    /\ tasks' = TaskCompleteOutcome(u, id, data).tasks
    /\ UNCHANGED <<lists, nextList, nextTask, now, inflight, customUsers>>

\* Mutant: perform_destroy that also resets the completion pair
PerformDestroy_Uncompletes(task) ==
    [task EXCEPT !.soft_deleted = TRUE, !.is_completed = FALSE, !.completed_at = None]

\* TaskViewSet.perform_destroy
PerformDestroy(task) == [task EXCEPT !.soft_deleted = TRUE]

\* DELETE tasks/{id}/
TaskDestroyOutcome(u, id) ==
    IF id \notin TaskGetQueryset(tasks, u)
    THEN Answer(404, {}, {})
    ELSE Outcome(204, {}, {}, lists, [tasks EXCEPT ![id] = PerformDestroy(@)])

TaskDestroy(u, id) ==
    /\ tasks' = TaskDestroyOutcome(u, id).tasks
    /\ UNCHANGED <<lists, nextList, nextTask, now, inflight, customUsers>>

\* GET tasks/
TaskListView(u) == Answer(200, TaskGetQueryset(tasks, u), {})

\* GET tasks/{id}/
TaskRetrieveView(u, id) ==
    IF id \in TaskGetQueryset(tasks, u) THEN Answer(200, {id}, {}) ELSE Answer(404, {}, {})

\* timezone.now().date() and the due_date__date lookup: the calendar day of an instant
DateOf(t) == t \div TicksPerDay

\* GET tasks/today/
TaskTodayView(u) ==
    Answer(200, {t \in TaskGetQueryset(tasks, u) :
                    /\ \/ tasks[t].due_date = None
                       \/ DateOf(tasks[t].due_date) = DateOf(now)
                    /\ ~tasks[t].is_completed}, {})

\* Mutant: overdue without its is_completed=False filter
TaskOverdueView_AnyCompletion(u) ==
    Answer(200, {t \in TaskGetQueryset(tasks, u) :
                    /\ tasks[t].due_date # None
                    /\ tasks[t].due_date < now}, {})

\* GET tasks/overdue/
TaskOverdueView(u) ==
    Answer(200, {t \in TaskGetQueryset(tasks, u) :
                    /\ tasks[t].due_date # None
                    /\ tasks[t].due_date < now
                    /\ ~tasks[t].is_completed}, {})

\* GET tasks/completed/
TaskCompletedView(u) ==
    Answer(200, {t \in TaskGetQueryset(tasks, u) : tasks[t].is_completed}, {})

\* GET lists/{id}/tasks/: completed is <<>> (no query parameter) or <<b>>
ListTasksView(u, id, completed) ==
    IF id \notin ListGetQueryset(lists, u)
    THEN Answer(404, {}, {})
    ELSE Answer(200, {t \in TaskIds :
                        /\ tasks[t].list = id
                        /\ tasks[t].user = u
                        /\ ~tasks[t].soft_deleted
                        /\ (completed = <<>> \/ tasks[t].is_completed = completed[1])}, {})

\* Mutant: get_task_count without its soft_deleted=False filter
GetTaskCount_WithDeleted(id) ==
    Cardinality({t \in TaskIds : tasks[t].list = id})

\* List.get_task_count: self.tasks.filter(soft_deleted=False).count()
GetTaskCount(id) ==
    Cardinality({t \in TaskIds : tasks[t].list = id /\ ~tasks[t].soft_deleted})

\* List.get_completed_task_count
GetCompletedTaskCount(id) ==
    Cardinality({t \in TaskIds :
                    tasks[t].list = id /\ ~tasks[t].soft_deleted /\ tasks[t].is_completed})

\* List.get_pending_task_count
GetPendingTaskCount(id) ==
    Cardinality({t \in TaskIds :
                    tasks[t].list = id /\ ~tasks[t].soft_deleted /\ ~tasks[t].is_completed})

\* The clock read by timezone.now() advances between requests
Tick ==
    /\ now < MaxTime
    /\ now' = now + 1
    /\ UNCHANGED <<lists, nextList, tasks, nextTask, inflight, customUsers>>

TaskUpdateData ==
    [list : Optional({None} \cup AnyListId), due_date : Optional({None} \cup DueDates)]

\* ------------------------------------------------ List.save, step by step

\* A request that runs List.save holds the instance it loaded and is before the
\* clearing UPDATE (pc = "clear"), before the row write (pc = "write") or finished
\* (pc = "done", ok telling whether the write succeeded)
Idle == [pc |-> "idle", id |-> None, inst |-> NewList("ua", "n1", FALSE, FALSE), ok |-> FALSE]

\* A set-default write starts: the row is loaded and is_default is set on the instance
SaveBegin(p, id) ==
    /\ inflight[p].pc = "idle"
    /\ id \in ListIds
    /\ inflight' = [inflight EXCEPT ![p] =
            [pc |-> "clear", id |-> id, inst |-> [lists[id] EXCEPT !.is_default = TRUE],
             ok |-> FALSE]]
    /\ UNCHANGED <<lists, nextList, tasks, nextTask, now, customUsers>>

\* List.save, first statement
SaveClear(p) ==
    /\ inflight[p].pc = "clear"
    /\ lists' = ClearOtherDefaults(lists, inflight[p].id, inflight[p].inst)
    /\ inflight' = [inflight EXCEPT ![p].pc = "write"]
    /\ UNCHANGED <<nextList, tasks, nextTask, now, customUsers>>

\* List.save, second statement: super().save()
SaveWrite(p) ==
    /\ inflight[p].pc = "write"
    /\ LET failed == UniqueTogetherViolated(lists, inflight[p].id, inflight[p].inst)
       IN  /\ lists' = IF failed THEN lists
                       ELSE WriteRow(lists, inflight[p].id, inflight[p].inst)
           /\ inflight' = [inflight EXCEPT ![p].pc = "done", ![p].ok = ~failed]
    /\ UNCHANGED <<nextList, tasks, nextTask, now, customUsers>>

\* --------------------------------------------------------- account store

\* table 'users' (CustomUser), keyed by id; rows are numbered in order of creation
AccountIds == DOMAIN customUsers
AnyAccountId == 1 .. (MaxUsers + 1)

Emails == {"e0", "e1", "e2"}
Passwords == {"p1", "p2"}
SocialProviders == {"google"}
ProviderIds == {"g1", "g2"}
FirstNames == {"", "f1"}

\* Python None / SQL NULL in the character columns (email, username,
\* auth_provider_id, password)
NoneStr == "None"

\* set_unusable_password(): a stored value that no raw password matches
Unusable == "!"

\* f"{self.auth_provider}_{self.auth_provider_id}"
SocialUsername(provider, providerId) ==
    CASE providerId = "g1" -> "google_g1"
      [] providerId = "g2" -> "google_g2"
      [] OTHER -> "google_None"

\* what an account handler answers and leaves: the HTTP status, the user the
\* returned token pair is for (None when the response carries no tokens), and the
\* users table
AcctOutcome(status, tokens, us) == [status |-> status, tokens |-> tokens, users |-> us]

\* CustomUser.is_social_user
IsSocialUser(user) == user.auth_provider # "email"

\* AbstractBaseUser.has_usable_password on the stored value (NULL, the unusable
\* marker, or a hash, written here as the raw password it was made from)
HasUsablePassword(user) == user.password \in Passwords

\* Mutant: check_password that accepts any raw password
CheckPassword_Always(user, raw) == TRUE

\* AbstractBaseUser.check_password
CheckPassword(user, raw) == HasUsablePassword(user) /\ user.password = raw

\* CustomUser.save: the instance as it is written
CustomUserSave(user) ==
    IF IsSocialUser(user)
    THEN [user EXCEPT
            !.username = IF @ = NoneStr
                         THEN SocialUsername(user.auth_provider, user.auth_provider_id)
                         ELSE @,
            !.password = IF @ = NoneStr THEN Unusable ELSE @]
    ELSE IF user.email # NoneStr THEN [user EXCEPT !.username = user.email]
    ELSE user

\* Column constraints of the table: email unique, username unique, (auth_provider,
\* auth_provider_id) unique where the id is not null; email is not nullable
UserIntegrityError(us, id, user) ==
    \/ user.email = NoneStr
    \/ \E k \in DOMAIN us \ {id} :
          \/ us[k].email = user.email
          \/ us[k].username = user.username
          \/ /\ user.auth_provider_id # NoneStr
             /\ us[k].auth_provider = user.auth_provider
             /\ us[k].auth_provider_id = user.auth_provider_id

\* Field defaults of CustomUser for a row made by objects.create(...)
NewUser(email, username, provider, providerId) ==
    [email |-> email, username |-> username, auth_provider |-> provider,
     auth_provider_id |-> providerId, password |-> NoneStr, first_name |-> "",
     is_active |-> TRUE, is_staff |-> FALSE, soft_deleted |-> FALSE]

\* the table with row id written
PutUser(us, id, user) ==
    [k \in DOMAIN us \cup {id} |-> IF k = id THEN user ELSE us[k]]

\* JWT authentication of a request: the token's user exists and is active
IsAuthenticated(caller) == caller \in AccountIds /\ customUsers[caller].is_active

\* permissions.IsAdminUser
IsAdminUser(caller) == IsAuthenticated(caller) /\ customUsers[caller].is_staff

\* a response that leaves the users table as it is
AcctAnswer(status, tokens) == AcctOutcome(status, tokens, customUsers)

\* POST auth/register/ (UserRegistrationView.post, UserRegistrationSerializer):
\* validate, then create: objects.create(...) followed by set_password and save
RegisterOutcome(email, password, confirm) ==
    IF password # confirm \/ \E k \in AccountIds : customUsers[k].email = email
    THEN AcctAnswer(400, None)
    ELSE LET id == Cardinality(AccountIds) + 1
             created == CustomUserSave(NewUser(email, email, "email", NoneStr))
             user == CustomUserSave([created EXCEPT !.password = password])
         IN  IF UserIntegrityError(customUsers, id, created)
             THEN AcctAnswer(500, None)
             ELSE AcctOutcome(201, id, PutUser(customUsers, id, user))

Register(email, password, confirm) ==
    /\ Cardinality(AccountIds) < MaxUsers
    /\ customUsers' = RegisterOutcome(email, password, confirm).users
    /\ UNCHANGED <<lists, nextList, tasks, nextTask, now, inflight>>

\* POST auth/social/ (SocialAuthView.post): the user with this provider and
\* provider id is fetched, or created from user_info, and is given tokens.
\* providerId and email are NoneStr when user_info lacks them
SocialAuthOutcome(provider, providerId, email) ==
    LET found == {k \in AccountIds :
                    /\ customUsers[k].auth_provider = provider
                    /\ customUsers[k].auth_provider_id = providerId}
        id == Cardinality(AccountIds) + 1
        user == CustomUserSave(NewUser(email, NoneStr, provider, providerId))
    IN  IF Cardinality(found) > 1 THEN AcctAnswer(500, None)
        ELSE IF found # {} THEN AcctAnswer(200, CHOOSE k \in found : TRUE)
        ELSE IF UserIntegrityError(customUsers, id, user) THEN AcctAnswer(500, None)
        ELSE AcctOutcome(200, id, PutUser(customUsers, id, user))

SocialAuth(provider, providerId, email) ==
    /\ Cardinality(AccountIds) < MaxUsers
    /\ customUsers' = SocialAuthOutcome(provider, providerId, email).users
    /\ UNCHANGED <<lists, nextList, tasks, nextTask, now, inflight>>

\* django.contrib.auth.authenticate with ModelBackend: the user of that username,
\* if the password matches and the user is active
Authenticate(username, password) ==
    {k \in AccountIds :
        /\ customUsers[k].username = username
        /\ CheckPassword(customUsers[k], password)
        /\ customUsers[k].is_active}

\* POST login (UserLoginView.post, UserLoginSerializer.validate); changes no row
LoginView(email, password) ==
    LET found == Authenticate(email, password)
    IN  IF found = {} THEN AcctAnswer(400, None)
        ELSE LET k == CHOOSE k \in found : TRUE
             IN  IF ~customUsers[k].is_active THEN AcctAnswer(400, None)
                 ELSE IF customUsers[k].soft_deleted THEN AcctAnswer(400, None)
                 ELSE AcctAnswer(200, k)

\* POST auth/password/change/ (PasswordChangeView.post, PasswordChangeSerializer)
PasswordChangeOutcome(caller, old, new, confirm) ==
    IF ~IsAuthenticated(caller) THEN AcctAnswer(401, None)
    ELSE IF ~CheckPassword(customUsers[caller], old) \/ new # confirm
    THEN AcctAnswer(400, None)
    ELSE AcctOutcome(200, None,
            PutUser(customUsers, caller,
                    CustomUserSave([customUsers[caller] EXCEPT !.password = new])))

PasswordChange(caller, old, new, confirm) ==
    /\ customUsers' = PasswordChangeOutcome(caller, old, new, confirm).users
    /\ UNCHANGED <<lists, nextList, tasks, nextTask, now, inflight>>

\* PUT/PATCH users/profile/update/ (UserProfileUpdateView, UserUpdateSerializer):
\* of the fields kept here the serializer writes first_name only
ProfileUpdateOutcome(caller, firstName) ==
    IF ~IsAuthenticated(caller) THEN AcctAnswer(401, None)
    ELSE AcctOutcome(200, None,
            PutUser(customUsers, caller,
                    CustomUserSave([customUsers[caller] EXCEPT !.first_name = firstName])))

ProfileUpdate(caller, firstName) ==
    /\ customUsers' = ProfileUpdateOutcome(caller, firstName).users
    /\ UNCHANGED <<lists, nextList, tasks, nextTask, now, inflight>>

\* Mutant: deactivation that sets soft_deleted and leaves is_active
Deactivated_StillActive(user) == [user EXCEPT !.soft_deleted = TRUE]

\* UserDeactivateView.post: the two assignments before user.save()
Deactivated(user) == [user EXCEPT !.soft_deleted = TRUE, !.is_active = FALSE]

\* POST users/{user_id}/deactivate/ (UserDeactivateView.post)
DeactivateOutcome(caller, target) ==
    IF ~IsAuthenticated(caller) THEN AcctAnswer(401, None)
    ELSE IF ~IsAdminUser(caller) THEN AcctAnswer(403, None)
    ELSE IF target \notin AccountIds \/ customUsers[target].soft_deleted
    THEN AcctAnswer(404, None)
    ELSE IF target = caller THEN AcctAnswer(400, None)
    ELSE AcctOutcome(200, None,
            PutUser(customUsers, target, CustomUserSave(Deactivated(customUsers[target]))))

Deactivate(caller, target) ==
    /\ customUsers' = DeactivateOutcome(caller, target).users
    /\ UNCHANGED <<lists, nextList, tasks, nextTask, now, inflight>>

\* ------------------------------------------------------- specifications

\* The one account not made through the API: an administrator (createsuperuser),
\* an email account with a password
Administrator ==
    [email |-> "e0", username |-> "e0", auth_provider |-> "email",
     auth_provider_id |-> NoneStr, password |-> "p1", first_name |-> "",
     is_active |-> TRUE, is_staff |-> TRUE, soft_deleted |-> FALSE]

Init ==
    /\ lists = <<>>
    /\ nextList = 0
    /\ tasks = <<>>
    /\ nextTask = 0
    /\ now = 0
    /\ inflight = [p \in Procs |-> Idle]
    /\ customUsers = <<Administrator>>

\* The list store alone: the list routes and List.save
NextList ==
    \/ \E u \in Users, n \in Names, d \in BOOLEAN, sd \in BOOLEAN : ListSaveNew(u, n, d, sd)
    \/ \E id \in ListIds, n \in Names, d \in BOOLEAN, sd \in BOOLEAN :
            ListSaveExisting(id, n, d, sd)
    \/ \E u \in Users, n \in Names : ListCreate(u, n)
    \/ \E u \in Users, id \in AnyListId, n \in Optional(Names) : ListUpdate(u, id, n)
    \/ \E u \in Users, id \in AnyListId, n \in Optional(Names), d \in Optional(BOOLEAN) :
            ListSerializerUpdate(u, id, n, d)
    \/ \E u \in Users, id \in AnyListId : ListDestroy(u, id)

SpecList == Init /\ [][NextList]_vars

\* a due date far enough ahead that no clock value passes it
FarDue == MaxTime + 1

\* requests against both stores: the list id and the due date of a task body
BothListIds == 1 .. (MaxListsBoth + 1)
BothTaskData ==
    [list : Optional({None} \cup BothListIds), due_date : Optional({None, FarDue})]

\* list names used by the requests against both stores
BothNames == {"n1", "n2"}

\* Both stores, without the clock: every writing route of the two viewsets and a
\* soft delete of a list (a save with soft_deleted set)
Next ==
    \/ \E u \in Users, n \in BothNames : nextList < MaxListsBoth /\ ListCreate(u, n)
    \/ \E id \in ListIds : ListSaveExisting(id, lists[id].name, lists[id].is_default, TRUE)
    \/ \E u \in Users, id \in BothListIds, n \in Optional(BothNames) : ListUpdate(u, id, n)
    \/ \E u \in Users, id \in BothListIds : ListDestroy(u, id)
    \/ \E u \in Users, l \in {None} \cup BothListIds, d \in {None, FarDue} :
            TaskCreate(u, l, d)
    \/ \E u \in Users, id \in AnyTaskId, d \in BothTaskData : TaskUpdate(u, id, d)
    \/ \E u \in Users, id \in AnyTaskId, c \in Optional(BOOLEAN) : TaskComplete(u, id, c)
    \/ \E u \in Users, id \in AnyTaskId : TaskDestroy(u, id)

Spec == Init /\ [][Next]_vars

\* The task store under the clock: one user's or the other's unfiled tasks with any
\* due date, while time passes between requests
NextTime ==
    \/ Tick
    \/ \E u \in Users, d \in {None} \cup DueDates : TaskCreate(u, None, d)
    \/ \E u \in Users, id \in AnyTaskId, d \in TaskUpdateData : TaskUpdate(u, id, d)
    \/ \E u \in Users, id \in AnyTaskId, c \in Optional(BOOLEAN) : TaskComplete(u, id, c)
    \/ \E u \in Users, id \in AnyTaskId : TaskDestroy(u, id)

SpecTime == Init /\ [][NextTime]_vars

\* the caller whose reads are followed
Reader == "ua"

\* Both stores of one caller, with default lists and the clock: lists are
\* provisioned and later flagged (is_default, soft_deleted) by saves, tasks are
\* filed, completed and soft deleted, and a due date of the first instant falls
\* behind the clock
NextRead ==
    \/ Tick
    \/ \E n \in BothNames, d \in BOOLEAN :
            nextList < MaxListsBoth /\ ListSaveNew(Reader, n, d, FALSE)
    \/ \E id \in ListIds, d \in BOOLEAN, sd \in BOOLEAN :
            ListSaveExisting(id, lists[id].name, d, sd)
    \/ \E l \in {None} \cup BothListIds, d \in {None, 0} : TaskCreate(Reader, l, d)
    \/ \E id \in AnyTaskId, c \in BOOLEAN : TaskComplete(Reader, id, <<c>>)
    \/ \E id \in AnyTaskId : TaskDestroy(Reader, id)

SpecRead == Init /\ [][NextRead]_vars

\* The account store: registration, social login, password change, profile update
\* and deactivation, beside the administrator
NextAcct ==
    \/ \E e \in Emails, p \in Passwords, c \in Passwords : Register(e, p, c)
    \/ \E pr \in SocialProviders, pid \in ProviderIds \cup {NoneStr},
           e \in Emails \cup {NoneStr} : SocialAuth(pr, pid, e)
    \/ \E a \in AnyAccountId, old \in Passwords, new \in Passwords, c \in Passwords :
            PasswordChange(a, old, new, c)
    \/ \E a \in AnyAccountId, f \in FirstNames : ProfileUpdate(a, f)
    \/ \E a \in AnyAccountId, t \in AnyAccountId : Deactivate(a, t)

SpecAcct == Init /\ [][NextAcct]_vars

\* Requests that overlap: lists are provisioned by whole saves, then each request
\* runs one set-default write whose two statements interleave with the other's
NextConc ==
    \/ \E u \in Users, n \in Names, d \in BOOLEAN :
            (\A p \in Procs : inflight[p].pc = "idle") /\ ListSaveNew(u, n, d, FALSE)
    \/ \E p \in Procs, id \in ListIds : SaveBegin(p, id)
    \/ \E p \in Procs : SaveClear(p)
    \/ \E p \in Procs : SaveWrite(p)

SpecConc == Init /\ [][NextConc]_vars

\* ---------------------------------------------------------------- claims

\* C1: after any sequence of list operations (create, save with is_default true or
\* false, update, delete) every user owns at most one list that is default and not
\* soft-deleted.
C1_AtMostOneDefault ==
    \A u \in Users : Cardinality(DefaultsOf(lists, u)) <= 1

\* C1 witness: a user owns three rows, one the non-deleted default, one non-deleted
\* and not default, one soft-deleted that still carries is_default.
C1_Witness ==
    \E u \in Users : \E a, b, c \in ListIds :
        /\ lists[a].user = u /\ lists[b].user = u /\ lists[c].user = u
        /\ DefaultsOf(lists, u) = {a}
        /\ ~lists[b].soft_deleted /\ ~lists[b].is_default
        /\ lists[c].soft_deleted /\ lists[c].is_default

\* C3 (as claimed): a set-default save of a non-deleted list L is all-or-nothing.
\* Either it succeeds, L is default and no other non-deleted list of the owner is,
\* or it fails and no list's is_default differs from before; and an owner who had
\* a default list before still has one after.
C3_AllOrNothing ==
    \A id \in ListIds, n \in Names :
        ~lists[id].soft_deleted =>
            LET inst == Loaded(id, n, TRUE, FALSE)
                out == ListSaveOutcome(id, inst)
            IN  /\ \/ /\ out.status = 200
                      /\ out.lists[id].is_default
                      /\ DefaultsOf(out.lists, inst.user) = {id}
                   \/ /\ out.status = 500
                      /\ \A k \in ListIds : out.lists[k].is_default = lists[k].is_default
                /\ DefaultsOf(lists, inst.user) # {} => DefaultsOf(out.lists, inst.user) # {}

\* C4: a successful save of list l2 with is_default = true, when l1 is the non-deleted
\* default list of the same user, leaves l1 with is_default = false and every other
\* field as it was, l2 with is_default = true, and every other list row of every
\* user, and every task row, exactly as it was.
C4_SetDefaultFrame ==
    \A l1 \in ListIds, l2 \in ListIds, n \in Names, sd \in BOOLEAN :
        LET out == ListSaveOutcome(l2, Loaded(l2, n, TRUE, sd))
        IN  (/\ l1 # l2
             /\ lists[l1].user = lists[l2].user
             /\ l1 \in DefaultsOf(lists, lists[l2].user)
             /\ out.status = 200)
            => /\ DOMAIN out.lists = ListIds
               /\ out.lists[l1] = [lists[l1] EXCEPT !.is_default = FALSE]
               /\ out.lists[l2].is_default
               /\ \A k \in ListIds \ {l1, l2} : out.lists[k] = lists[k]
               /\ out.tasks = tasks

\* C4 witness: l2 is the default of a user whose other non-deleted list l1 is not,
\* beside a third row of that user and, in another reachable state, a default of
\* the other user: here the first, with all three rows owned by one user.
C4_Witness ==
    \E l1, l2, l3 \in ListIds :
        /\ l1 # l2 /\ l1 # l3 /\ l2 # l3
        /\ lists[l1].user = lists[l2].user /\ lists[l3].user = lists[l2].user
        /\ ~lists[l1].soft_deleted /\ ~lists[l2].soft_deleted /\ ~lists[l3].soft_deleted
        /\ lists[l1].is_default /\ ~lists[l2].is_default /\ ~lists[l3].is_default
        /\ ListSaveOutcome(l2, Loaded(l2, lists[l2].name, TRUE, FALSE)).status = 200

\* C9 (as claimed): no operation removes a list record: the set of stored list rows
\* never shrinks (a deleted list stays, with soft_deleted = true).
C9_ListRowsNeverRemoved ==
    [][\A id \in DOMAIN lists : id \in DOMAIN lists']_vars

\* C2 (as claimed): once two set-default writes for two different non-deleted lists
\* of one user have both finished, whatever the order of their steps, exactly one
\* non-deleted list of that user is default.
C2_SetDefaultSerializes ==
    \A p, q \in Procs :
        (/\ p # q
         /\ inflight[p].pc = "done" /\ inflight[q].pc = "done"
         /\ inflight[p].ok /\ inflight[q].ok
         /\ inflight[p].id # inflight[q].id
         /\ inflight[p].inst.user = inflight[q].inst.user
         /\ ~inflight[p].inst.soft_deleted /\ ~inflight[q].inst.soft_deleted)
        => Cardinality(DefaultsOf(lists, inflight[p].inst.user)) = 1

\* C5: in every reachable state, for every task, is_completed is true exactly when
\* completed_at is set.
C5_CompletedIffStamped ==
    \A t \in TaskIds : tasks[t].is_completed <=> tasks[t].completed_at # None

\* C5 witness: a completed, soft-deleted task carrying its stamp beside a task that
\* is not completed and carries none.
C5_Witness ==
    \E t1, t2 \in TaskIds :
        /\ tasks[t1].is_completed /\ tasks[t1].completed_at # None /\ tasks[t1].soft_deleted
        /\ ~tasks[t2].is_completed /\ tasks[t2].completed_at = None

\* C6: every task with a list reference points to a stored list of the task's own
\* user; a task create, or an update of a task the caller can reach, that names a
\* list of another user is answered 400 and changes neither table.
C6_ListOwnerMatches ==
    /\ \A t \in TaskIds :
          tasks[t].list # None =>
              /\ tasks[t].list \in ListIds
              /\ lists[tasks[t].list].user = tasks[t].user
    /\ \A u \in Users, l \in ListIds :
          lists[l].user # u =>
              /\ \A d \in {None, FarDue} : TaskCreateOutcome(u, l, d) = Answer(400, {}, {})
              /\ \A id \in TaskIds, d \in Optional({None, FarDue}) :
                    (tasks[id].user = u /\ ~tasks[id].soft_deleted) =>
                        TaskUpdateOutcome(u, id, [list |-> <<l>>, due_date |-> d])
                            = Answer(400, {}, {})

\* C6 witness: a task filed in a list of its owner, while the other user owns a
\* task they can reach and could name that list in an update.
C6_Witness ==
    \E t1, t2 \in TaskIds :
        /\ tasks[t1].list # None
        /\ tasks[t2].user # tasks[t1].user
        /\ ~tasks[t2].soft_deleted
        /\ tasks[t2].list = None

\* every response and effect a caller can obtain from the two viewsets
OutcomesOf(a) ==
    {TaskListView(a), TaskTodayView(a), TaskOverdueView(a), TaskCompletedView(a),
     ListListView(a), ListInboxView(a)}
    \cup {TaskRetrieveView(a, id) : id \in AnyTaskId}
    \cup {TaskUpdateOutcome(a, id, d) : id \in AnyTaskId, d \in BothTaskData}
    \cup {TaskCompleteOutcome(a, id, c) : id \in AnyTaskId, c \in Optional(BOOLEAN)}
    \cup {TaskDestroyOutcome(a, id) : id \in AnyTaskId}
    \cup {TaskCreateOutcome(a, l, d) : l \in {None} \cup BothListIds, d \in {None, FarDue}}
    \cup {ListRetrieveView(a, id) : id \in BothListIds}
    \cup {ListUpdateOutcome(a, id, n) : id \in BothListIds, n \in Optional(BothNames)}
    \cup {ListDestroyOutcome(a, id) : id \in BothListIds}
    \cup {ListTasksView(a, id, c) : id \in BothListIds, c \in Optional(BOOLEAN)}
    \cup {ListCreateOutcome(a, n) : n \in BothNames}

TaskMissing(id) == id \notin TaskIds
TaskOwnDeleted(a, id) == id \in TaskIds /\ tasks[id].user = a /\ tasks[id].soft_deleted
TaskOfOther(a, id) == id \in TaskIds /\ tasks[id].user # a
ListMissing(id) == id \notin ListIds
ListOwnDeleted(a, id) == id \in ListIds /\ lists[id].user = a /\ lists[id].soft_deleted
ListOfOther(a, id) == id \in ListIds /\ lists[id].user # a

\* C8: a by-id operation on an id that does not exist, that names a soft-deleted
\* entity of the caller, or that names an entity of another user is answered by the
\* same 404 with an empty body and changes neither table, in all three cases.
C8_NotFoundIndistinguishable ==
    \A a \in Users :
        /\ \A id \in AnyTaskId :
              (TaskMissing(id) \/ TaskOwnDeleted(a, id) \/ TaskOfOther(a, id)) =>
                  /\ TaskRetrieveView(a, id) = Answer(404, {}, {})
                  /\ \A d \in BothTaskData : TaskUpdateOutcome(a, id, d) = Answer(404, {}, {})
                  /\ \A c \in Optional(BOOLEAN) :
                        TaskCompleteOutcome(a, id, c) = Answer(404, {}, {})
                  /\ TaskDestroyOutcome(a, id) = Answer(404, {}, {})
        /\ \A id \in BothListIds :
              (ListMissing(id) \/ ListOwnDeleted(a, id) \/ ListOfOther(a, id)) =>
                  /\ ListRetrieveView(a, id) = Answer(404, {}, {})
                  /\ \A n \in Optional(BothNames) :
                        ListUpdateOutcome(a, id, n) = Answer(404, {}, {})
                  /\ ListDestroyOutcome(a, id) = Answer(404, {}, {})
                  /\ \A c \in Optional(BOOLEAN) :
                        ListTasksView(a, id, c) = Answer(404, {}, {})

\* C8 witness: for one caller all three cases are present at once, for tasks and
\* for lists: an id never issued, a soft-deleted entity of the caller, and an entity
\* of the other user.
C8_Witness ==
    \E a \in Users :
        /\ \E i, j, k \in AnyTaskId : TaskMissing(i) /\ TaskOwnDeleted(a, j) /\ TaskOfOther(a, k)
        /\ \E i, j, k \in BothListIds : ListMissing(i) /\ ListOwnDeleted(a, j) /\ ListOfOther(a, k)

\* C10: a list deletion keeps every task row; a task that referenced the list has
\* list = null and every other field, soft_deleted included, as before, so a task
\* that was not soft-deleted is still in its owner's task listing; every other
\* task row is unchanged.
C10_ListDeleteKeepsTasks ==
    \A u \in Users, id \in BothListIds :
        LET out == ListDestroyOutcome(u, id)
        IN  out.status = 204 =>
              /\ DOMAIN out.tasks = TaskIds
              /\ \A t \in TaskIds :
                    /\ tasks[t].list = id => out.tasks[t] = [tasks[t] EXCEPT !.list = None]
                    /\ tasks[t].list # id => out.tasks[t] = tasks[t]
                    /\ out.tasks[t].soft_deleted = tasks[t].soft_deleted
                    /\ (tasks[t].list = id /\ ~tasks[t].soft_deleted) =>
                          t \in TaskGetQueryset(out.tasks, tasks[t].user)

\* C10 witness: one list was deleted already, and the other, which its owner can
\* delete, holds two tasks that are not soft-deleted, one completed and one with a
\* due date.
C10_Witness ==
    \E l \in ListIds, t1, t2 \in TaskIds :
        /\ nextList > Cardinality(ListIds)
        /\ ListDestroyOutcome(lists[l].user, l).status = 204
        /\ t1 # t2
        /\ tasks[t1].list = l /\ tasks[t2].list = l
        /\ ~tasks[t1].soft_deleted /\ ~tasks[t2].soft_deleted
        /\ tasks[t1].is_completed /\ tasks[t2].due_date # None

\* C11 (as claimed): a list delete request whose confirm_delete is absent or false
\* is refused and leaves every list row and every task row as it was.
C11_DeleteNeedsConfirmation ==
    \A u \in Users, id \in AnyListId, confirm \in Optional(BOOLEAN) :
        LET out == ListDestroyRequest(u, id, confirm)
        IN  ~ValidateConfirmDelete(confirm) =>
                /\ out.status # 204
                /\ out.lists = lists
                /\ out.tasks = tasks

\* C12: on a task the caller can reach, a completion request whose value equals the
\* stored is_completed changes no row (completed_at keeps its earlier stamp); on a
\* task not completed, a request for true sets is_completed and stamps completed_at
\* with the current time; on a completed task, a request for false clears both; no
\* other field and no other row changes.
C12_SetCompletedIdempotent ==
    \A u \in Users : \A t \in TaskGetQueryset(tasks, u), c \in BOOLEAN :
        LET out == TaskCompleteOutcome(u, t, <<c>>)
        IN  /\ out.status = 200
            /\ out.lists = lists
            /\ tasks[t].is_completed = c => out.tasks = tasks
            /\ (~tasks[t].is_completed /\ c) =>
                  out.tasks = [tasks EXCEPT ![t].is_completed = TRUE, ![t].completed_at = now]
            /\ (tasks[t].is_completed /\ ~c) =>
                  out.tasks = [tasks EXCEPT ![t].is_completed = FALSE,
                                            ![t].completed_at = None]

\* C12 witness: a reachable task completed at an earlier instant than now (a second
\* completion would show as a new stamp), beside a reachable task not completed.
C12_Witness ==
    \E t1, t2 \in TaskIds :
        /\ ~tasks[t1].soft_deleted /\ ~tasks[t2].soft_deleted
        /\ tasks[t1].is_completed /\ tasks[t1].completed_at < now
        /\ ~tasks[t2].is_completed

\* a task row with its completion timestamp blanked
WithoutTimestamps(task) == [task EXCEPT !.completed_at = None]

\* C13: for every task, setting completion to the opposite of its stored value and
\* then back to the stored value flips is_completed in between and ends with a row
\* equal to the original in every field other than the completion timestamp (owner,
\* list, due_date, is_completed, soft_deleted).
C13_ToggleTwiceRestores ==
    \A t \in TaskIds :
        LET c == tasks[t].is_completed
            once == CompleteUpdate(tasks[t], <<~c>>)
            twice == CompleteUpdate(once, <<c>>)
        IN  /\ once.is_completed = ~c
            /\ WithoutTimestamps(once) = WithoutTimestamps([tasks[t] EXCEPT !.is_completed = ~c])
            /\ WithoutTimestamps(twice) = WithoutTimestamps(tasks[t])

\* C13 witness: a completed task and a task not completed, each filed in a list and
\* carrying a due date.
C13_Witness ==
    \E t1, t2 \in TaskIds :
        /\ tasks[t1].is_completed /\ ~tasks[t2].is_completed
        /\ tasks[t1].list # None /\ tasks[t2].list # None
        /\ tasks[t1].due_date # None /\ tasks[t2].due_date # None

\* C14: creating an unfiled task with a due date strictly before the current time
\* is answered 400 and stores nothing; with no due date, or a due date at or after
\* the current time, it is answered 201 and stores exactly one new row, carrying
\* that due date, beside the unchanged old rows.
C14_CreateDueDateRule ==
    \A u \in Users, d \in {None} \cup DueDates :
        LET out == TaskCreateOutcome(u, None, d)
            id == nextTask + 1
        IN  IF d # None /\ d < now
            THEN out = Answer(400, {}, {})
            ELSE /\ out.status = 201
                 /\ DOMAIN out.tasks = TaskIds \cup {id}
                 /\ id \notin TaskIds
                 /\ out.tasks[id] = NewTask(u, None, d)
                 /\ \A t \in TaskIds : out.tasks[t] = tasks[t]

\* C14 witness: the clock has advanced, so that some due date lies strictly in the
\* past, one equals the current time and one lies ahead, and a task was created.
C14_Witness ==
    /\ \E d1, d2, d3 \in DueDates : d1 < now /\ d2 = now /\ d3 > now
    /\ \E t \in TaskIds : tasks[t].due_date = now

\* C15: on a task the caller can reach, an update that supplies a due date strictly
\* before the current time is answered 400 and changes no row; one that supplies
\* null or a due date at or after the current time is answered 200 and stores it;
\* one that supplies no due_date is answered 200 and keeps the stored due date,
\* also when that date has passed.
C15_UpdateDueDateRule ==
    \A u \in Users : \A t \in TaskGetQueryset(tasks, u) :
        /\ \A d \in {None} \cup DueDates :
              LET out == TaskUpdateOutcome(u, t, [list |-> <<>>, due_date |-> <<d>>])
              IN  IF d # None /\ d < now
                  THEN out = Answer(400, {}, {})
                  ELSE /\ out.status = 200
                       /\ out.tasks = [tasks EXCEPT ![t].due_date = d]
        /\ \A l \in {<<>>, <<None>>} :
              LET out == TaskUpdateOutcome(u, t, [list |-> l, due_date |-> <<>>])
              IN  /\ out.status = 200
                  /\ out.tasks[t].due_date = tasks[t].due_date

\* C15 witness: a reachable task whose stored due date has passed.
C15_Witness ==
    \E t \in TaskIds :
        /\ ~tasks[t].soft_deleted
        /\ tasks[t].due_date # None
        /\ tasks[t].due_date < now

\* C16 (as claimed): creating a list under a name that a non-deleted list of the
\* caller already holds is answered with a validation or conflict error (400 or
\* 409) and stores nothing; no two non-deleted lists of one user share a name.
C16_CreateConflictReported ==
    /\ \A u \in Users, n \in Names :
          (\E k \in ListGetQueryset(lists, u) : lists[k].name = n) =>
              LET out == ListCreateOutcome(u, n)
              IN  out.status \in {400, 409} /\ out.lists = lists /\ out.tasks = tasks
    /\ \A a, b \in ListIds :
          (a # b /\ lists[a].user = lists[b].user
                 /\ ~lists[a].soft_deleted /\ ~lists[b].soft_deleted)
              => lists[a].name # lists[b].name

C18_SoftDeletedNameReusable ==
    \A u \in Users, n \in Names :
        (/\ \E k \in ListIds : lists[k].user = u /\ lists[k].name = n /\ lists[k].soft_deleted
         /\ ~\E k \in ListGetQueryset(lists, u) : lists[k].name = n)
        => /\ ListCreateOutcome(u, n).status = 201
           /\ \A id \in ListGetQueryset(lists, u) : ListUpdateOutcome(u, id, <<n>>).status = 200

\* C19 (as claimed): whatever a list update request carries (a name or none, an
\* is_default value or none) and whichever of the two list viewsets serves it,
\* every list row has the same is_default after the update as before.
C19_UpdateKeepsDefault ==
    \A u \in Users, id \in AnyListId, n \in Optional(Names), d \in Optional(BOOLEAN) :
        \A out \in {ListUpdateRequest(u, id, n, d), ListSerializerUpdateOutcome(u, id, n, d)} :
            /\ DOMAIN out.lists = ListIds
            /\ \A k \in ListIds : out.lists[k].is_default = lists[k].is_default

\* every response a caller can obtain from the read routes of the two viewsets
ReadsOf(a) ==
    {TaskListView(a), TaskTodayView(a), TaskOverdueView(a), TaskCompletedView(a),
     ListListView(a), ListInboxView(a)}
    \cup {TaskRetrieveView(a, id) : id \in AnyTaskId}
    \cup {ListRetrieveView(a, id) : id \in BothListIds}
    \cup {ListTasksView(a, id, c) : id \in BothListIds, c \in Optional(BOOLEAN)}

C21_TaskSoftDeleteFrame ==
    \A u \in Users : \A t \in TaskGetQueryset(tasks, u) :
        LET out == TaskDestroyOutcome(u, t)
        IN  /\ out.status = 204
            /\ out.tasks = [tasks EXCEPT ![t].soft_deleted = TRUE]
            /\ out.tasks[t].is_completed = tasks[t].is_completed
            /\ out.tasks[t].completed_at = tasks[t].completed_at
            /\ out.lists = lists

\* C21 witness: a reachable task that is completed, filed in a list and carries a
\* due date, beside another task.
C21_Witness ==
    \E t1, t2 \in TaskIds :
        /\ t1 # t2
        /\ ~tasks[t1].soft_deleted
        /\ tasks[t1].is_completed /\ tasks[t1].completed_at # None
        /\ tasks[t1].list # None /\ tasks[t1].due_date # None

\* C22: at every time, overdue() returns exactly the caller's tasks that are not
\* soft-deleted and for which is_overdue holds; is_overdue holds exactly when the
\* due date is set, lies strictly before the current time, and the task is not
\* completed (so not when the due date equals the current time).
C22_OverdueExact ==
    /\ \A u \in Users :
          TaskOverdueView(u).body_tasks =
              {t \in TaskIds : tasks[t].user = u /\ ~tasks[t].soft_deleted
                                /\ IsOverdue(tasks[t])}
    /\ \A t \in TaskIds :
          IsOverdue(tasks[t]) <=>
              (tasks[t].due_date # None /\ tasks[t].due_date < now /\ ~tasks[t].is_completed)
    /\ \A t \in TaskIds : tasks[t].due_date = now => ~IsOverdue(tasks[t])

\* C22 witness: two reachable tasks that are not completed, one with a due date
\* before the current time and one with a due date equal to it.
C22_Witness ==
    \E t1, t2 \in TaskIds :
        /\ ~tasks[t1].soft_deleted /\ ~tasks[t2].soft_deleted
        /\ ~tasks[t1].is_completed /\ ~tasks[t2].is_completed
        /\ tasks[t1].due_date # None /\ tasks[t1].due_date < now
        /\ tasks[t2].due_date = now

\* C23: in every state, at whatever time, a task that is completed and not
\* soft-deleted is returned by completed() to its owner, is not returned by
\* overdue() to anyone, and is not reported is_overdue.
C23_CompletedNeverOverdue ==
    \A t \in TaskIds :
        (tasks[t].is_completed /\ ~tasks[t].soft_deleted) =>
            /\ t \in TaskCompletedView(tasks[t].user).body_tasks
            /\ \A u \in Users : t \notin TaskOverdueView(u).body_tasks
            /\ ~IsOverdue(tasks[t])

\* C23 witness: a reachable task completed no later than its due date, after which
\* the due date has passed.
C23_Witness ==
    \E t \in TaskIds :
        /\ tasks[t].is_completed /\ ~tasks[t].soft_deleted
        /\ tasks[t].due_date # None
        /\ tasks[t].completed_at <= tasks[t].due_date
        /\ tasks[t].due_date < now

\* C24 (as claimed): in every reachable state the inbox route answers a caller who
\* has no non-deleted default list with 404 and any other caller with 200 and that
\* one list, which is the caller's own, default and not soft-deleted; it never
\* ends in an unhandled error.
C24_InboxOutcome ==
    \A u \in Users :
        LET out == ListInboxView(u)
        IN  IF DefaultsOf(lists, u) = {}
            THEN out = Answer(404, {}, {})
            ELSE /\ out.status = 200
                 /\ \E l \in ListIds :
                       /\ out.body_lists = {l}
                       /\ lists[l].user = u
                       /\ lists[l].is_default
                       /\ ~lists[l].soft_deleted

\* every effect a caller can obtain from the writing routes, with any owner named
\* in the body, and from the saves that set a default or soft-delete a list
WritesOf(a) ==
    OutcomesOf(a)
    \cup {TaskCreateRequest(a, l, d, o) :
              l \in {None} \cup BothListIds, d \in {None, FarDue}, o \in Users}
    \cup {TaskUpdateRequest(a, id, d, o) : id \in AnyTaskId, d \in BothTaskData, o \in Users}
    \cup {ListSerializerUpdateOutcome(a, id, n, d) :
              id \in BothListIds, n \in Optional(BothNames), d \in Optional(BOOLEAN)}
    \cup {ListSaveOutcome(id, Loaded(id, lists[id].name, d, sd)) :
              id \in ListGetQueryset(lists, a), d \in BOOLEAN, sd \in BOOLEAN}

\* C28: no operation (create, update, complete, soft delete, list delete, set
\* default), whatever its body names as owner, changes the user of a stored task or
\* list; a row an operation adds is owned by the caller.
C28_OwnerImmutable ==
    \A a \in Users : \A out \in WritesOf(a) :
        /\ \A t \in DOMAIN out.tasks :
              out.tasks[t].user = IF t \in TaskIds THEN tasks[t].user ELSE a
        /\ \A l \in DOMAIN out.lists :
              out.lists[l].user = IF l \in ListIds THEN lists[l].user ELSE a

\* C28 witness: each of the two users owns a list and a reachable task, so that
\* every operation has a row of the caller and a row of the other user before it.
C28_Witness ==
    \E t1, t2 \in TaskIds, l1, l2 \in ListIds :
        /\ tasks[t1].user = "ua" /\ tasks[t2].user = "ub"
        /\ ~tasks[t1].soft_deleted /\ ~tasks[t2].soft_deleted
        /\ l1 \in ListGetQueryset(lists, "ua") /\ l2 \in ListGetQueryset(lists, "ub")

\* C29 (as claimed): no task that is not soft-deleted references a soft-deleted
\* list; a task create or update that names a soft-deleted list of the caller is
\* answered 400.
C29_NoLiveTaskInDeletedList ==
    /\ \A t \in TaskIds :
          (~tasks[t].soft_deleted /\ tasks[t].list # None) =>
              /\ tasks[t].list \in ListIds
              /\ ~lists[tasks[t].list].soft_deleted
    /\ \A u \in Users, l \in ListIds :
          (lists[l].user = u /\ lists[l].soft_deleted) =>
              /\ TaskCreateOutcome(u, l, None).status = 400
              /\ \A t \in TaskGetQueryset(tasks, u) :
                    TaskUpdateOutcome(u, t, [list |-> <<l>>, due_date |-> <<>>]).status = 400

\* C30 (as claimed): once a task is soft-deleted, no operation of the API changes
\* its row: soft_deleted stays true and every other field stays as it was.
C30_SoftDeletedTaskUntouched ==
    [][\A t \in TaskIds :
          tasks[t].soft_deleted => (t \in DOMAIN tasks' /\ tasks'[t] = tasks[t])]_vars

\* C30 (amended): once a task is soft-deleted, every operation keeps its row with
\* soft_deleted true and every field other than list as it was; its list reference
\* either stays or, when that list is deleted, becomes null.
C30_SoftDeletedTaskFrozen ==
    [][\A t \in TaskIds :
          tasks[t].soft_deleted =>
              /\ t \in DOMAIN tasks'
              /\ tasks'[t].soft_deleted
              /\ [tasks'[t] EXCEPT !.list = None] = [tasks[t] EXCEPT !.list = None]
              /\ tasks'[t].list \in {tasks[t].list, None}
              /\ tasks'[t].list # tasks[t].list => tasks[t].list \notin DOMAIN lists']_vars

\* C30 witness: a soft-deleted, completed task filed in a list that its owner can
\* still update and delete, beside a second task.
C30_Witness ==
    \E t1, t2 \in TaskIds :
        /\ t1 # t2
        /\ tasks[t1].soft_deleted /\ tasks[t1].is_completed
        /\ tasks[t1].list # None
        /\ tasks[t1].list \in ListGetQueryset(lists, tasks[t1].user)

\* every answer of a login path: email/password login and social login
LoginAttempts ==
    {LoginView(e, p) : e \in Emails, p \in Passwords}
    \cup {SocialAuthOutcome(pr, pid, e) :
              pr \in SocialProviders, pid \in ProviderIds \cup {NoneStr},
              e \in Emails \cup {NoneStr}}

\* C25 (as claimed): no login attempt, by email and password or by social login,
\* returns a token pair for a user who is soft-deleted or not active.
C25_NoTokensForInactive ==
    \A out \in LoginAttempts :
        out.tokens # None =>
            /\ out.users[out.tokens].is_active
            /\ ~out.users[out.tokens].soft_deleted

\* C26: after every operation, every user either is an email account with a usable
\* password or is a social account without one.
C26_CredentialInvariant ==
    \A k \in AccountIds :
        /\ HasUsablePassword(customUsers[k]) <=> ~IsSocialUser(customUsers[k])
        /\ customUsers[k].auth_provider = "email" => customUsers[k].password \in Passwords
        /\ customUsers[k].auth_provider # "email" => customUsers[k].password = Unusable

\* C26 witness: beside the administrator, a registered email account whose password
\* differs from the administrator's and an active social account.
C26_Witness ==
    \E a, b \in AccountIds :
        /\ ~customUsers[a].is_staff
        /\ customUsers[a].auth_provider = "email"
        /\ customUsers[a].password # customUsers[1].password
        /\ IsSocialUser(customUsers[b])
        /\ customUsers[b].is_active

\* every effect an account operation can have, for any caller and input
AcctWrites ==
    {RegisterOutcome(e, p, c) : e \in Emails, p \in Passwords, c \in Passwords}
    \cup {SocialAuthOutcome(pr, pid, e) :
              pr \in SocialProviders, pid \in ProviderIds \cup {NoneStr},
              e \in Emails \cup {NoneStr}}
    \cup {PasswordChangeOutcome(a, old, new, c) :
              a \in AnyAccountId, old \in Passwords, new \in Passwords, c \in Passwords}
    \cup {ProfileUpdateOutcome(a, f) : a \in AnyAccountId, f \in FirstNames}
    \cup {DeactivateOutcome(a, t) : a \in AnyAccountId, t \in AnyAccountId}

\* C27: no account operation removes a user row; a deactivation by an administrator
\* of another user who is not soft-deleted is answered 200 and changes that row
\* only, to soft_deleted = true and is_active = false; of the administrator's own
\* account it is answered 400, and of a missing or already soft-deleted user 404,
\* both leaving the table as it was.
C27_UserNeverRemoved ==
    /\ \A out \in AcctWrites : AccountIds \subseteq DOMAIN out.users
    /\ \A a \in AccountIds, t \in AnyAccountId :
          IsAdminUser(a) =>
              LET out == DeactivateOutcome(a, t)
              IN  IF t \notin AccountIds \/ customUsers[t].soft_deleted
                  THEN out = AcctAnswer(404, None)
                  ELSE IF t = a
                  THEN out = AcctAnswer(400, None)
                  ELSE /\ out.status = 200
                       /\ out.users = [customUsers EXCEPT ![t].soft_deleted = TRUE,
                                                          ![t].is_active = FALSE]

\* C27 witness: the administrator, a user already deactivated, and a user who is
\* active and can be deactivated.
C27_Witness ==
    \E a, b, c \in AccountIds :
        /\ IsAdminUser(a)
        /\ customUsers[b].soft_deleted /\ ~customUsers[b].is_active
        /\ ~customUsers[c].soft_deleted /\ customUsers[c].is_active /\ c # a

=============================================================================
